---- MODULE Spec2Model ----
(***************************************************************************)
(* Model of mcts::UCTreeNode<N_ACTIONS, URand> (TreeNode.h) and of the     *)
(* calls the harness mdpHarness.cpp makes on it.                           *)
(*                                                                         *)
(* Representation.  A double is a fixed-point integer counting quanta of   *)
(* 1/Scale = 1e-6, so EPSILON is one quantum.  The tie-break noise         *)
(* rand*EPSILON is smaller than one quantum; a score that carries it is a  *)
(* record [hi, lo] with hi in quanta and lo in 1/Scale of a quantum.       *)
(* nVisits_i is a double in the source that only ever holds whole numbers; *)
(* it is a natural number here.  A pointer is the index of a node in the   *)
(* heap, 0 being the null pointer.                                         *)
(***************************************************************************)
EXTENDS Integers, Sequences, FiniteSets, TLC

VARIABLES
  nActions,    \* template parameter N_ACTIONS of the tree
  urandType,   \* template parameter URand of the tree
  mdpKind,     \* the Generator type the caller passes to iterate
  bandit,      \* the caller's generator object `bandit`, passed by value
  heap,        \* the allocated UCTreeNode objects; heap[1] is the root `tree`
  crand,       \* state of the C library generator behind rand()
  iters,       \* number of completed iterate() calls on the root
  fault,       \* "none", or "assert" once an assert() of the engine failed
  lastOp,      \* the last call made on the root
  visitedLog,  \* nodes pushed on `visited` by the last iterate(), in push order
  rewardLog,   \* values pushed on `rewards` by the last iterate(), in push order
  mdpLog,      \* the calls mdp(action) of the last iterate() and what each
               \* returned, in call order
  handed,      \* per node: the values passed to its updateStats, oldest first
  bestOut,     \* what the last bestAction() returned and what it read
  backupLog,   \* the last iterate(): what rollOut returned, the nodes updated,
               \* the sizes of its two stacks when it stopped
  caught,      \* the exception that left the last call, as the caller sees it
  treeCopy,    \* the caller's second tree object: its root, 0 before it exists
  released,    \* the nodes whose destructor has run, in the order it ran
  queryOut     \* what the last vValue(), qValue() or operator<< gave and read

vars == <<nActions, urandType, mdpKind, bandit, heap, crand, iters, fault, lastOp,
          visitedLog, rewardLog, mdpLog, handed, bestOut, backupLog, caught,
          treeCopy, released, queryOut>>

----------------------------------------------------------------------------
(* Bounds of the model *)

MaxActions == 3
MaxIterations == 3
MaxHeap == 12

(* The environment: the C library and the generator types the tree is used
   with *)

RAND_MAX == 2
RandDen == 2
URandTypes == {"SimpleURand", "ZeroURand", "SeqURand"}
URandSeeds == 0..(RandDen - 1)
MdpKinds == {"SimpleBandit_m", "Const", "Cycle"}
MdpSeeds == {0, 1}

(* Program constants *)

Scale == 1000000
EPSILON == 1
MAX_ROLLOUT_ITERATIONS == 50
DEFAULT_GAMMA == 900000
DBL_MAX == 2147483647

GammaSet == {DEFAULT_GAMMA, Scale \div 2}

----------------------------------------------------------------------------
(* double arithmetic in fixed point *)

RECURSIVE DivDigits(_, _, _)
\* floor(r * 10^n / d) for 0 <= r < d, one decimal digit at a time
DivDigits(r, n, d) ==
  IF n = 0 THEN 0
  ELSE ((r * 10) \div d) * (10 ^ (n - 1)) + DivDigits((r * 10) % d, n - 1, d)

\* a / d for doubles a and d > 0, both in quanta; the quotient in quanta
FDiv(a, d) == (a \div d) * Scale + DivDigits(a % d, 6, d)

\* g * v for doubles 0 <= g, v in quanta; the product in quanta (truncated)
FMul(g, v) ==
  LET gh == g \div 1000
      gl == g % 1000
      vh == v \div 1000
      vl == v % 1000
  IN gh * vh + ((gh * vl + gl * vh + ((gl * vl) \div 1000)) \div 1000)

\* std::log at the whole numbers 1..9, in quanta
LogTable == <<0, 693147, 1098612, 1386294, 1609437, 1791759, 1945910,
              2079441, 2197224>>

\* std::log(x) for a whole number x >= 1
Log(x) == LogTable[x]

RECURSIVE ISqrtB(_, _, _)
\* the greatest y in lo..hi-1 with y*y <= x, given lo*lo <= x < hi*hi
ISqrtB(x, lo, hi) ==
  IF hi - lo <= 1 THEN lo
  ELSE LET mid == (lo + hi) \div 2
       IN IF mid * mid <= x THEN ISqrtB(x, mid, hi) ELSE ISqrtB(x, lo, mid)

\* std::sqrt(a / d) for doubles a >= 0 and d > 0 in quanta; the result in
\* quanta.  The quotient can be as large as 1e6 * log(n), beyond the range of
\* the fixed point, so it is taken in hundredths and the root in tenths.
SqrtOfQuotient(a, d) ==
  LET hundredths == (a \div d) * 100 + DivDigits(a % d, 2, d)
  IN ISqrtB(hundredths, 0, 46340) * (Scale \div 10)

\* a score: a double plus a tie-break noise below one quantum
AddNoise(x, sub) == [hi |-> x + (sub \div Scale), lo |-> sub % Scale]

\* a >= b on scores
GE(a, b) == a.hi > b.hi \/ (a.hi = b.hi /\ a.lo >= b.lo)

\* -std::numeric_limits<double>::max()
LowestScore == [hi |-> -DBL_MAX, lo |-> 0]

----------------------------------------------------------------------------
(* The random sources *)

\* rand() of the C library: advances the global state and returns it, a
\* number in 0..RAND_MAX
CRandNext(s) == (s + 1) % (RAND_MAX + 1)

\* URand(): the state of a default-constructed generator object
URandDefault == 0

\* no exception
NoException == [action |-> -1, call |-> 0]

\* nothing backed up yet
NoBackup == [R |-> 0, updated |-> <<>>, stacks |-> <<0, 0>>]

\* A frame is the state one call works on: the heap, the global generator,
\* the call's own copy of the reward source, the two stacks of iterate, and
\* the records kept of what the call did.  fault is "none" while the call
\* runs, "assert" once an assert() failed, "exception" once an exception is
\* propagating (thrown says which).
Frame(h, cr, m, hd) ==
  [heap |-> h, crand |-> cr, mdp |-> m, fault |-> "none", handed |-> hd,
   visited |-> <<>>, rewards |-> <<>>,
   visitedLog |-> <<>>, rewardLog |-> <<>>, mdpLog |-> <<>>,
   thrown |-> NoException, backupLog |-> NoBackup]

\* rand_i() with SimpleURand dividing rand() itself by RAND_MAX, so that 1.0
\* can be drawn
Draw_UpToOne(f, p) ==
  CASE urandType = "SimpleURand" ->
         LET r == CRandNext(f.crand)
         IN [v |-> (r * Scale) \div RAND_MAX, f |-> [f EXCEPT !.crand = r]]
    [] urandType = "ZeroURand" -> [v |-> 0, f |-> f]
    [] OTHER ->
         LET u == f.heap[p].rand_i
         IN [v |-> (u * Scale) \div RandDen,
             f |-> [f EXCEPT !.heap[p].rand_i = (u + 1) % RandDen]]

\* rand_i() on node p: the value drawn, in quanta of [0, Scale), and the
\* frame with the generator advanced.  SimpleURand draws from rand();
\* ZeroURand is a stub that returns 0; SeqURand is a seeded generator object
\* that steps through 0, 1/RandDen, 2/RandDen, ...
Draw(f, p) ==
  CASE urandType = "SimpleURand" ->
         LET r == CRandNext(f.crand)
         IN [v |-> ((r % RAND_MAX) * Scale) \div RAND_MAX,
             f |-> [f EXCEPT !.crand = r]]
    [] urandType = "ZeroURand" -> [v |-> 0, f |-> f]
    [] OTHER ->
         LET u == f.heap[p].rand_i
         IN [v |-> (u * Scale) \div RandDen,
             f |-> [f EXCEPT !.heap[p].rand_i = (u + 1) % RandDen]]

\* mdp(action) on the frame's copy of the reward source, called from `from`:
\* the reward in quanta, and the frame with the source advanced and the call
\* recorded.  SimpleBandit_m is the harness's bandit; Const returns the
\* same reward (1.0, or 0.0) for ever; ThrowOn returns 0.5 and throws when
\* it is asked about one action; Cycle's reward depends on the action and on
\* how many calls it has answered.
CallMdp(f, action, from) ==
  LET logged(v) ==
        [f EXCEPT !.mdpLog = Append(@, [a |-> action, from |-> from, r |-> v])]
  IN CASE mdpKind = "SimpleBandit_m" ->
            LET r == CRandNext(f.crand)
                v == ((r % RAND_MAX) * Scale) \div RAND_MAX
            IN [v |-> v, f |-> [logged(v) EXCEPT !.crand = r]]
       [] mdpKind = "Const" ->
            [v |-> Scale - f.mdp * Scale, f |-> logged(Scale - f.mdp * Scale)]
       [] mdpKind = "ThrowOn" ->
            IF action = f.mdp
            THEN [v |-> 0,
                  f |-> [logged(0) EXCEPT
                           !.fault = "exception",
                           !.thrown = [action |-> action,
                                       call |-> Len(f.mdpLog) + 1]]]
            ELSE [v |-> Scale \div 2, f |-> logged(Scale \div 2)]
       [] OTHER ->
            LET v == ((f.mdp + action) % 4) * (Scale \div 4)
            IN [v |-> v, f |-> [logged(v) EXCEPT !.mdp = (f.mdp + 1) % 2]]

----------------------------------------------------------------------------
(* UCTreeNode *)

\* the constructor counting the construction as a visit
NewNode_Visited(inGamma, inRand) ==
  [vpChildren_i |-> [k \in 1..nActions |-> 0],
   isLeaf_i |-> TRUE, nVisits_i |-> 1, totValue_i |-> 0,
   gamma_i |-> inGamma, rand_i |-> inRand]

\* UCTreeNode(inGamma, inRand): a leaf with all child pointers null
NewNode(inGamma, inRand) ==
  [vpChildren_i |-> [k \in 1..nActions |-> 0],
   isLeaf_i |-> TRUE, nVisits_i |-> 0, totValue_i |-> 0,
   gamma_i |-> inGamma, rand_i |-> inRand]

\* isLeaf()
IsLeaf(h, p) == h[p].isLeaf_i

\* the value of child pCur without the exploration term
UctValue_NoExploration(h, p, pCur) ==
  FDiv(h[pCur].totValue_i, h[pCur].nVisits_i * Scale + EPSILON)

\* the UCT value of child pCur of node p, before the noise is added
UctValue(h, p, pCur) ==
  FDiv(h[pCur].totValue_i, h[pCur].nVisits_i * Scale + EPSILON)
  + SqrtOfQuotient(Log(h[p].nVisits_i + 1),
                   h[pCur].nVisits_i * Scale + EPSILON)

RECURSIVE SelectLoop_Strict(_, _, _, _, _)
\* the loop of selectAction comparing with > instead of >=
SelectLoop_Strict(f, p, k, selected, bestValue) ==
  IF k >= nActions THEN [ret |-> selected, f |-> f]
  ELSE LET pCur == f.heap[p].vpChildren_i[k + 1]
       IN IF pCur = 0
          THEN [ret |-> selected, f |-> [f EXCEPT !.fault = "assert"]]
          ELSE LET d == Draw(f, p)
                   uctValue == AddNoise(UctValue(f.heap, p, pCur),
                                        d.v * EPSILON)
               IN IF ~GE(bestValue, uctValue)
                  THEN SelectLoop_Strict(d.f, p, k + 1, k, uctValue)
                  ELSE SelectLoop_Strict(d.f, p, k + 1, selected, bestValue)

RECURSIVE SelectLoop(_, _, _, _, _)
\* the for loop of selectAction, from child k on
SelectLoop(f, p, k, selected, bestValue) ==
  IF k >= nActions THEN [ret |-> selected, f |-> f]
  ELSE LET pCur == f.heap[p].vpChildren_i[k + 1]
       IN IF pCur = 0
          THEN [ret |-> selected, f |-> [f EXCEPT !.fault = "assert"]]
          ELSE LET d == Draw(f, p)
                   uctValue == AddNoise(UctValue(f.heap, p, pCur),
                                        d.v * EPSILON)
               IN IF GE(uctValue, bestValue)
                  THEN SelectLoop(d.f, p, k + 1, k, uctValue)
                  ELSE SelectLoop(d.f, p, k + 1, selected, bestValue)

\* selectAction() on node p
SelectAction(f, p) ==
  IF f.heap[p].isLeaf_i
  THEN [ret |-> 0, f |-> [f EXCEPT !.fault = "assert"]]
  ELSE SelectLoop(f, p, 0, 0, LowestScore)

RECURSIVE ExpandLoop(_, _, _)
\* the for loop of expand, from child k on: vpChildren_i[k] = new UCTreeNode()
ExpandLoop(f, p, k) ==
  IF k >= nActions THEN f
  ELSE ExpandLoop(
         [f EXCEPT !.heap = [Append(@, NewNode(DEFAULT_GAMMA, URandDefault))
                               EXCEPT ![p].vpChildren_i[k + 1] = Len(f.heap) + 1],
                   !.handed = Append(@, <<>>)],
         p, k + 1)

\* expand() as in the first draft, which left isLeaf_i set
Expand_KeepsLeafFlag(f, p) ==
  IF ~f.heap[p].isLeaf_i THEN f ELSE ExpandLoop(f, p, 0)

\* expand() without its test of the leaf flag
Expand_Again(f, p) ==
  ExpandLoop([f EXCEPT !.heap[p].isLeaf_i = FALSE], p, 0)

\* expand() on node p
Expand(f, p) ==
  IF ~f.heap[p].isLeaf_i THEN f
  ELSE ExpandLoop([f EXCEPT !.heap[p].isLeaf_i = FALSE], p, 0)

RECURSIVE RollOutLoop_OneMore(_, _, _, _, _)
\* the rollout loop with k <= MAX_ROLLOUT_ITERATIONS as its test
RollOutLoop_OneMore(f, p, k, discount, totReward) ==
  IF f.fault # "none" \/ k > MAX_ROLLOUT_ITERATIONS
  THEN [ret |-> totReward, f |-> f]
  ELSE LET d == Draw(f, p)
           action == (d.v * nActions) \div Scale
           r == CallMdp(d.f, action, "rollOut")
       IN RollOutLoop_OneMore(r.f, p, k + 1, FMul(discount, f.heap[p].gamma_i),
                              totReward + FMul(discount, r.v))

RECURSIVE RollOutLoop_Undiscounted(_, _, _, _, _)
\* the rollout loop without the update of discount
RollOutLoop_Undiscounted(f, p, k, discount, totReward) ==
  IF f.fault # "none" \/ k >= MAX_ROLLOUT_ITERATIONS
  THEN [ret |-> totReward, f |-> f]
  ELSE LET d == Draw(f, p)
           action == (d.v * nActions) \div Scale
           r == CallMdp(d.f, action, "rollOut")
       IN RollOutLoop_Undiscounted(r.f, p, k + 1, discount,
                                   totReward + FMul(discount, r.v))

RECURSIVE RollOutLoop(_, _, _, _, _)
\* the for loop of rollOut on node p, from step k on; an exception thrown by
\* mdp(action) ends it
RollOutLoop(f, p, k, discount, totReward) ==
  IF f.fault # "none" \/ k >= MAX_ROLLOUT_ITERATIONS
  THEN [ret |-> totReward, f |-> f]
  ELSE LET d == Draw(f, p)
           action == (d.v * nActions) \div Scale
           r == CallMdp(d.f, action, "rollOut")
       IN RollOutLoop(r.f, p, k + 1, FMul(discount, f.heap[p].gamma_i),
                      totReward + FMul(discount, r.v))

\* rollOut with the loop in a try block whose handler returns the rewards
\* summed so far
RollOut_Swallows(f, p) ==
  LET r == RollOutLoop(f, p, 0, Scale, 0)
  IN [ret |-> r.ret,
      f |-> [r.f EXCEPT !.mdp = f.mdp, !.fault = "none",
                        !.thrown = NoException]]

\* rollOut(mdp) on node p.  mdp is passed by value: the caller's copy of the
\* reward source is as it was when the rollout returns.
RollOut(f, p) ==
  LET r == RollOutLoop(f, p, 0, Scale, 0)
  IN [ret |-> r.ret, f |-> [r.f EXCEPT !.mdp = f.mdp]]

\* updateStats storing the last value instead of adding it
UpdateStats_Overwrites(f, p, value) ==
  [f EXCEPT !.heap[p].nVisits_i = @ + 1,
            !.heap[p].totValue_i = value,
            !.handed[p] = Append(@, value),
            !.backupLog.updated = Append(@, p)]

\* updateStats counting every visit twice
UpdateStats_CountsTwice(f, p, value) ==
  [f EXCEPT !.heap[p].nVisits_i = @ + 2,
            !.heap[p].totValue_i = @ + value,
            !.handed[p] = Append(@, value),
            !.backupLog.updated = Append(@, p)]

\* updateStats without the increment of nVisits_i
UpdateStats_NoCount(f, p, value) ==
  [f EXCEPT !.heap[p].totValue_i = @ + value,
            !.handed[p] = Append(@, value),
            !.backupLog.updated = Append(@, p)]

\* updateStats(value) on node p
UpdateStats(f, p, value) ==
  [f EXCEPT !.heap[p].nVisits_i = @ + 1,
            !.heap[p].totValue_i = @ + value,
            !.handed[p] = Append(@, value),
            !.backupLog.updated = Append(@, p)]

\* the visit counted when the node is pushed, before the mdp call
PushStep_CountsFirst(f, p, action) ==
  LET pushed == [f EXCEPT !.visited = Append(@, p),
                          !.visitedLog = Append(@, p),
                          !.heap[p].nVisits_i = @ + 1]
      r == CallMdp(pushed, action, "iterate")
  IN IF r.f.fault # "none" THEN r.f
     ELSE [r.f EXCEPT !.rewards = Append(@, r.v), !.rewardLog = Append(@, r.v)]

\* the push of the node and the mdp call, without the push of the reward
PushStep_DropsReward(f, p, action) ==
  LET pushed == [f EXCEPT !.visited = Append(@, p),
                          !.visitedLog = Append(@, p)]
  IN CallMdp(pushed, action, "iterate").f

\* visited.push(p); the mdp call; rewards.push(curReward), which an
\* exception thrown by the mdp call skips
PushStep(f, p, action) ==
  LET pushed == [f EXCEPT !.visited = Append(@, p),
                          !.visitedLog = Append(@, p)]
      r == CallMdp(pushed, action, "iterate")
  IN IF r.f.fault # "none" THEN r.f
     ELSE [r.f EXCEPT !.rewards = Append(@, r.v), !.rewardLog = Append(@, r.v)]

\* the descent loop left out: iterate expands the root every time
DescendLoop_NoDescent(f, pCur) == [pCur |-> pCur, f |-> f]

RECURSIVE DescendLoop(_, _)
\* the first while loop of iterate, with pCur where it stands: the frame and
\* the leaf it stops at
DescendLoop(f, pCur) ==
  IF f.fault # "none" \/ IsLeaf(f.heap, pCur) THEN [pCur |-> pCur, f |-> f]
  ELSE LET s == SelectAction(f, pCur)
           next == s.f.heap[pCur].vpChildren_i[s.ret + 1]
       IN IF s.f.fault # "none" THEN [pCur |-> pCur, f |-> s.f]
          ELSE DescendLoop(PushStep(s.f, next, s.ret), next)

RECURSIVE UnwindLoop_SkipsRoot(_, _, _)
\* the unwind loop stopping one node early, so the root is never updated
UnwindLoop_SkipsRoot(f, self, value) ==
  IF Len(f.visited) <= 1 THEN f
  ELSE LET top == f.rewards[Len(f.rewards)] + FMul(f.heap[self].gamma_i, value)
           pCur == f.visited[Len(f.visited)]
           g == UpdateStats(f, pCur, top)
       IN UnwindLoop_SkipsRoot([g EXCEPT !.visited = SubSeq(@, 1, Len(@) - 1),
                                         !.rewards = SubSeq(@, 1, Len(@) - 1)],
                               self, top)

RECURSIVE UnwindLoop_NodeGamma(_, _, _)
\* the unwind loop discounting with the gamma of the node it updates
UnwindLoop_NodeGamma(f, self, value) ==
  IF f.visited = <<>> THEN f
  ELSE IF Len(f.visited) # Len(f.rewards) THEN [f EXCEPT !.fault = "assert"]
  ELSE LET pCur == f.visited[Len(f.visited)]
           top == f.rewards[Len(f.rewards)] + FMul(f.heap[pCur].gamma_i, value)
           g == UpdateStats(f, pCur, top)
       IN UnwindLoop_NodeGamma([g EXCEPT !.visited = SubSeq(@, 1, Len(@) - 1),
                                         !.rewards = SubSeq(@, 1, Len(@) - 1)],
                               self, top)

RECURSIVE UnwindLoop(_, _, _)
\* the last while loop of iterate on node self, with `value` as it stands
UnwindLoop(f, self, value) ==
  IF f.visited = <<>> THEN f
  ELSE IF Len(f.visited) # Len(f.rewards) THEN [f EXCEPT !.fault = "assert"]
  ELSE LET top == f.rewards[Len(f.rewards)] + FMul(f.heap[self].gamma_i, value)
           pCur == f.visited[Len(f.visited)]
           g == UpdateStats(f, pCur, top)
       IN UnwindLoop([g EXCEPT !.visited = SubSeq(@, 1, Len(@) - 1),
                               !.rewards = SubSeq(@, 1, Len(@) - 1)],
                     self, top)

\* iterate returning after the rollout, without the unwind loop
IterateOn_NoUnwind(f0, self) ==
  LET start == [f0 EXCEPT !.visited = <<self>>, !.visitedLog = <<self>>,
                          !.rewards = <<0>>, !.rewardLog = <<0>>]
      d == DescendLoop(start, self)
      x == Expand(d.f, d.pCur)
      s == SelectAction(x, d.pCur)
      child == s.f.heap[d.pCur].vpChildren_i[s.ret + 1]
      p == PushStep(s.f, child, s.ret)
      r == RollOut(p, self)
  IN [r.f EXCEPT !.backupLog.R = r.ret]

\* iterate(mdp) on node self: the frame when the call ends
IterateOn(f0, self) ==
  LET start == [f0 EXCEPT !.visited = <<self>>, !.visitedLog = <<self>>,
                          !.rewards = <<0>>, !.rewardLog = <<0>>]
      d == DescendLoop(start, self)
      x == Expand(d.f, d.pCur)
      s == SelectAction(x, d.pCur)
      child == s.f.heap[d.pCur].vpChildren_i[s.ret + 1]
      p == PushStep(s.f, child, s.ret)
      r == RollOut(p, self)
  IN IF d.f.fault # "none" THEN d.f
     ELSE IF s.f.fault # "none" THEN s.f
     ELSE IF p.fault # "none" THEN p
     ELSE IF r.f.fault # "none" THEN r.f
     ELSE UnwindLoop([r.f EXCEPT !.backupLog.R = r.ret], self, r.ret)

RECURSIVE NumOfNodes(_, _)
RECURSIVE SumNodes(_, _, _)
\* the for loop of numOfNodes, from child k on
SumNodes(h, p, k) ==
  IF k >= nActions THEN 0
  ELSE NumOfNodes(h, h[p].vpChildren_i[k + 1]) + SumNodes(h, p, k + 1)

\* numOfNodes() on node p
NumOfNodes(h, p) == IF h[p].isLeaf_i THEN 1 ELSE 1 + SumNodes(h, p, 0)

RECURSIVE MaxDepth(_, _, _)
RECURSIVE MaxDepthLoop(_, _, _, _, _)
\* the for loop of maxDepth, from child k on
MaxDepthLoop(h, p, parentDepth, k, maxDepth) ==
  IF k >= nActions THEN maxDepth
  ELSE LET curDepth == MaxDepth(h, h[p].vpChildren_i[k + 1], parentDepth + 1)
       IN MaxDepthLoop(h, p, parentDepth, k + 1,
                       IF maxDepth < curDepth THEN curDepth ELSE maxDepth)

RECURSIVE MaxDepth_LeafAtParentDepth(_, _, _)
\* maxDepth with a leaf counted at its parent's depth
MaxDepth_LeafAtParentDepth(h, p, parentDepth) ==
  IF h[p].isLeaf_i THEN parentDepth
  ELSE MaxDepthLoop(h, p, parentDepth, 0, 0)

\* maxDepth(parentDepth) on node p
MaxDepth(h, p, parentDepth) ==
  IF h[p].isLeaf_i THEN parentDepth + 1
  ELSE MaxDepthLoop(h, p, parentDepth, 0, 0)

RECURSIVE BestLoop(_, _, _, _, _, _, _)
\* the for loop of bestAction on node p, from child k on; `read` collects the
\* child slots read and `noise` the tie-break noise added, in 1/Scale quanta
BestLoop(f, p, k, selected, bestValue, read, noise) ==
  IF k >= nActions
  THEN [ret |-> selected, f |-> f, read |-> read, noise |-> noise]
  ELSE LET pCur == f.heap[p].vpChildren_i[k + 1]
       IN IF pCur = 0
          THEN [ret |-> selected, f |-> [f EXCEPT !.fault = "assert"],
                read |-> Append(read, k), noise |-> noise]
          ELSE LET r == CRandNext(f.crand)
                   sub == (r * EPSILON * Scale) \div RAND_MAX
                   expValue ==
                     AddNoise(FDiv(f.heap[pCur].totValue_i,
                                   f.heap[pCur].nVisits_i * Scale + EPSILON),
                              sub)
                   g == [f EXCEPT !.crand = r]
               IN IF GE(expValue, bestValue)
                  THEN BestLoop(g, p, k + 1, k, expValue,
                                Append(read, k), Append(noise, sub))
                  ELSE BestLoop(g, p, k + 1, selected, bestValue,
                                Append(read, k), Append(noise, sub))

\* bestAction() on node p
BestActionOn(f, p) ==
  IF f.heap[p].isLeaf_i
  THEN LET d == Draw(f, p)
       IN [ret |-> (d.v * nActions) \div Scale, f |-> d.f,
           read |-> <<>>, noise |-> <<>>]
  ELSE BestLoop(f, p, 0, 0, LowestScore, <<>>, <<>>)

\* vValue() giving 0 for a node that was never visited
VValue_ZeroWhenUnvisited(h, p) ==
  IF h[p].nVisits_i = 0 THEN <<0, 1>> ELSE <<h[p].totValue_i, h[p].nVisits_i>>

\* vValue() on node p: totValue_i / nVisits_i as the fraction <<num, den>>,
\* and "nan" for the 0.0 / 0.0 of a node that was never visited
VValue(h, p) ==
  IF h[p].nVisits_i = 0 /\ h[p].totValue_i = 0 THEN "nan"
  ELSE <<h[p].totValue_i, h[p].nVisits_i>>

\* qValue(action) on an internal node p, for 0 <= action < N_ACTIONS
QValue(h, p, action) == VValue(h, h[p].vpChildren_i[action + 1])

\* the call qValue(action) on node p: its two asserts, then the read of the
\* child pointer and vValue() on what it points to.  Calling through a null
\* or indeterminate pointer is undefined.  ret holds the value returned,
\* read the slots read.
QValueOn(h, p, action) ==
  IF ~(0 <= action) THEN [ret |-> <<>>, read |-> <<>>, fault |-> "assert"]
  ELSE IF ~(nActions > action)
  THEN [ret |-> <<>>, read |-> <<>>, fault |-> "assert"]
  ELSE IF h[p].vpChildren_i[action + 1] \notin 1..Len(h)
  THEN [ret |-> <<>>, read |-> <<action>>, fault |-> "undefined"]
  ELSE [ret |-> <<QValue(h, p, action)>>, read |-> <<action>>,
        fault |-> "none"]

RECURSIVE PrintLoop(_, _, _, _)
\* the for loop of operator<< on node p, from action k on, with what was
\* printed and read so far in `out`
PrintLoop(h, p, k, out) ==
  IF k >= nActions \/ out.fault # "none" THEN out
  ELSE LET q == QValueOn(h, p, k)
       IN PrintLoop(h, p, k + 1,
                    [ret |-> out.ret \o q.ret, read |-> out.read \o q.read,
                     fault |-> q.fault])

\* out << tree on node p: V, and for an internal node the Q of every action
PrintOn(h, p) ==
  LET v == [ret |-> <<VValue(h, p)>>, read |-> <<>>, fault |-> "none"]
  IN IF IsLeaf(h, p) THEN v ELSE PrintLoop(h, p, 0, v)

\* -std::numeric_limits<double>::max() as a fraction
LowestQ == <<-DBL_MAX, 1>>

\* bestQ <= curVal in the harness, on fractions; false when curVal is a NaN
QLessEq(bestQ, curVal) ==
  IF curVal = "nan" THEN FALSE
  ELSE IF bestQ = LowestQ THEN TRUE
  ELSE bestQ[1] * curVal[2] <= curVal[1] * bestQ[2]

RECURSIVE CorrectActionLoop(_, _, _, _, _)
\* the harness's loop that finds "the true best action", from action k on
CorrectActionLoop(h, p, k, bestQ, correctAction) ==
  IF k >= nActions THEN correctAction
  ELSE LET curVal == QValue(h, p, k)
       IN IF QLessEq(bestQ, curVal)
          THEN CorrectActionLoop(h, p, k + 1, curVal, k)
          ELSE CorrectActionLoop(h, p, k + 1, bestQ, correctAction)

\* correctAction as the harness computes it for tree p
CorrectAction(h, p) == CorrectActionLoop(h, p, 0, LowestQ, 0)

----------------------------------------------------------------------------
(* Copying, assigning and destroying trees.  A store is what these calls    *)
(* work on: the heap, the values each node's statistics stand for, the      *)
(* nodes destroyed so far, and the fault the call ran into.                 *)

\* A child pointer that was never written.  Its value is indeterminate: a
\* read of it can give a null or a non-null pointer.
Indeterminate == -1

Store(h, hd, rel) == [heap |-> h, handed |-> hd, released |-> rel, fault |-> "none"]

\* the destructor has not run on node p
Alive(rel, p) == \A i \in 1..Len(rel) : rel[i] # p

RECURSIVE CopyNode(_, _)
\* the copy loop storing the source's own child pointers
CopyChildren_Shallow(st, src, me, k) ==
  [st |-> [st EXCEPT !.heap[me].vpChildren_i = st.heap[src].vpChildren_i],
   p |-> me]

RECURSIVE CopyChildren(_, _, _, _)
\* the for loop of the copy constructor of node `me` from node src, from
\* child k on
CopyChildren(st, src, me, k) ==
  IF k >= nActions THEN [st |-> st, p |-> me]
  ELSE LET c == st.heap[src].vpChildren_i[k + 1]
       IN IF c = 0 THEN [st |-> [st EXCEPT !.fault = "assert"], p |-> me]
          ELSE LET r == CopyNode(st, c)
               IN IF r.st.fault # "none" THEN [st |-> r.st, p |-> me]
                  ELSE CopyChildren(
                         [r.st EXCEPT !.heap[me].vpChildren_i[k + 1] = r.p],
                         src, me, k + 1)

\* new UCTreeNode(tree) where tree is node src: the initialiser list copies
\* the scalar members and leaves vpChildren_i unwritten; the body returns at
\* once for a leaf and copies the children otherwise
CopyNode(st, src) ==
  LET me == Len(st.heap) + 1
      node == [st.heap[src] EXCEPT
                 !.vpChildren_i = [k \in 1..nActions |-> Indeterminate]]
      made == [st EXCEPT !.heap = Append(@, node),
                         !.handed = Append(@, st.handed[src])]
  IN IF node.isLeaf_i THEN [st |-> made, p |-> me]
     ELSE CopyChildren(made, src, me, 0)

RECURSIVE DestroyNode(_, _)
RECURSIVE DestroyChildren(_, _, _)
\* the for loop of the destructor of node p, from child k on
DestroyChildren(st, p, k) ==
  IF k >= nActions \/ st.fault # "none" THEN st
  ELSE LET c == st.heap[p].vpChildren_i[k + 1]
       IN IF c = 0 THEN DestroyChildren(st, p, k + 1)
          ELSE DestroyChildren(
                 [DestroyNode(st, c) EXCEPT !.heap[p].vpChildren_i[k + 1] = 0],
                 p, k + 1)

\* the destructor releasing the node itself and none of its children
DestroyNode_LeaksChildren(st, p) ==
  [st EXCEPT !.released = Append(@, p)]

\* ~UCTreeNode() on node p, and the end of p's lifetime.  Destroying a node
\* whose lifetime is over is undefined.
DestroyNode(st, p) ==
  IF ~Alive(st.released, p) THEN [st EXCEPT !.fault = "undefined"]
  ELSE IF st.heap[p].isLeaf_i THEN [st EXCEPT !.released = Append(@, p)]
  ELSE LET d == DestroyChildren(st, p, 0)
       IN IF d.fault # "none" THEN d
          ELSE [d EXCEPT !.released = Append(@, p)]

RECURSIVE AssignDeleteLoop(_, _, _)
\* the first for loop of operator= on node a, from child k on
AssignDeleteLoop(st, a, k) ==
  IF k >= nActions \/ st.fault # "none" THEN st
  ELSE LET c == st.heap[a].vpChildren_i[k + 1]
       IN IF c = 0 THEN [st EXCEPT !.fault = "assert"]
          ELSE AssignDeleteLoop(
                 [DestroyNode(st, c) EXCEPT !.heap[a].vpChildren_i[k + 1] = 0],
                 a, k + 1)

RECURSIVE AssignCopyLoop(_, _, _, _, _)
\* the second for loop of operator= on node a with tree = node b, from child
\* k on.  garbageIsNull says how an indeterminate pointer of a reads.  The
\* source writes tree.vpChildren[k], which names no member; the loop is
\* modelled with tree.vpChildren_i[k], the member the two asserts name.
AssignCopyLoop(st, a, b, k, garbageIsNull) ==
  IF k >= nActions THEN st
  ELSE LET from == st.heap[b].vpChildren_i[k + 1]
           mine == st.heap[a].vpChildren_i[k + 1]
       IN IF from = 0 THEN [st EXCEPT !.fault = "assert"]
          ELSE IF ~(mine = 0 \/ (mine = Indeterminate /\ garbageIsNull))
          THEN [st EXCEPT !.fault = "assert"]
          ELSE LET r == CopyNode(st, from)
               IN IF r.st.fault # "none" THEN r.st
                  ELSE AssignCopyLoop(
                         [r.st EXCEPT !.heap[a].vpChildren_i[k + 1] = r.p],
                         a, b, k + 1, garbageIsNull)

\* a.operator=(b) on nodes a and b.  The function has no return statement:
\* flowing off its end is undefined, and flowsOff is what the build makes of
\* it ("none": the caller goes on; "undefined": anything else).
AssignNode(st, a, b, garbageIsNull, flowsOff) ==
  LET deleted == IF st.heap[a].isLeaf_i THEN st ELSE AssignDeleteLoop(st, a, 0)
      scalars == [deleted EXCEPT
                    !.heap[a].isLeaf_i = deleted.heap[b].isLeaf_i,
                    !.heap[a].nVisits_i = deleted.heap[b].nVisits_i,
                    !.heap[a].totValue_i = deleted.heap[b].totValue_i,
                    !.heap[a].gamma_i = deleted.heap[b].gamma_i,
                    !.heap[a].rand_i = deleted.heap[b].rand_i,
                    !.handed[a] = deleted.handed[b]]
      copied == IF scalars.heap[a].isLeaf_i THEN scalars
                ELSE AssignCopyLoop(scalars, a, b, 0, garbageIsNull)
  IN IF deleted.fault # "none" THEN deleted
     ELSE IF copied.fault # "none" THEN copied
     ELSE [copied EXCEPT !.fault = flowsOff]

----------------------------------------------------------------------------
(* The harness: a tree is constructed, then iterate and bestAction are     *)
(* called on it.                                                           *)

NoBest == [ret |-> -1, read |-> <<>>, noise |-> <<>>]

\* no vValue(), qValue() or operator<< call was the last call
NoQuery == [call |-> "none", arg |-> 0, ret |-> <<>>, read |-> <<>>]

Init ==
  /\ nActions \in 1..MaxActions
  /\ urandType \in URandTypes
  /\ mdpKind \in MdpKinds
  /\ bandit \in (IF mdpKind = "SimpleBandit_m" THEN {0} ELSE MdpSeeds)
  /\ crand \in 0..RAND_MAX
  /\ \E inGamma \in GammaSet :
       \E inRand \in (IF urandType = "SeqURand" THEN URandSeeds ELSE {0}) :
         heap = <<NewNode(inGamma, inRand)>>
  /\ iters = 0
  /\ fault = "none"
  /\ lastOp = "construct"
  /\ visitedLog = <<>>
  /\ rewardLog = <<>>
  /\ mdpLog = <<>>
  /\ handed = << <<>> >>
  /\ bestOut = NoBest
  /\ backupLog = NoBackup
  /\ caught = NoException
  /\ treeCopy = 0
  /\ released = <<>>
  /\ queryOut = NoQuery

\* tree.iterate(bandit): the call works on a copy of the caller's generator
Iterate ==
  /\ fault = "none"
  /\ Alive(released, 1)
  /\ iters < MaxIterations
  /\ \E f \in {IterateOn(Frame(heap, crand, bandit, handed), 1)} :
       /\ heap' = f.heap
       /\ crand' = f.crand
       /\ fault' = f.fault
       /\ handed' = f.handed
       /\ visitedLog' = f.visitedLog
       /\ rewardLog' = f.rewardLog
       /\ mdpLog' = f.mdpLog
       /\ backupLog' = [f.backupLog EXCEPT
                          !.stacks = <<Len(f.visited), Len(f.rewards)>>]
       /\ caught' = f.thrown
  /\ iters' = iters + 1
  /\ lastOp' = "iterate"
  /\ bestOut' = NoBest
  /\ queryOut' = NoQuery
  /\ UNCHANGED <<nActions, urandType, mdpKind, bandit, treeCopy, released>>

\* tree.bestAction()
BestAction ==
  /\ fault = "none"
  /\ Alive(released, 1)
  /\ \E b \in {BestActionOn(Frame(heap, crand, bandit, handed), 1)} :
        /\ heap' = b.f.heap
        /\ crand' = b.f.crand
        /\ fault' = b.f.fault
        /\ bestOut' = [ret |-> b.ret, read |-> b.read, noise |-> b.noise]
  /\ lastOp' = "bestAction"
  /\ queryOut' = NoQuery
  /\ UNCHANGED <<nActions, urandType, mdpKind, bandit, iters, handed,
                 visitedLog, rewardLog, mdpLog, backupLog, caught, treeCopy,
                 released>>

Next == Iterate \/ BestAction

Spec == Init /\ [][Next]_vars

----------------------------------------------------------------------------
(* A caller that also copies, assigns and destroys: next to `tree` it has a *)
(* second object, treeCopy, copy-constructed from it.                       *)

\* the caller's two tree objects that exist and were not destroyed
LiveRoots == {r \in {1, treeCopy} : r # 0 /\ Alive(released, r)}

\* UCTreeNode<N_ACTIONS, URand> treeCopy(tree)
CopyConstruct ==
  /\ fault = "none"
  /\ treeCopy = 0
  /\ Alive(released, 1)
  /\ Len(heap) + NumOfNodes(heap, 1) <= MaxHeap
  /\ \E r \in {CopyNode(Store(heap, handed, released), 1)} :
       /\ heap' = r.st.heap
       /\ handed' = r.st.handed
       /\ fault' = r.st.fault
       /\ treeCopy' = r.p
  /\ lastOp' = "copy"
  /\ bestOut' = NoBest
  /\ queryOut' = NoQuery
  /\ UNCHANGED <<nActions, urandType, mdpKind, bandit, crand, iters, visitedLog,
                 rewardLog, mdpLog, backupLog, caught, released>>

\* treeCopy.iterate(bandit)
IterateCopy ==
  /\ fault = "none"
  /\ treeCopy \in LiveRoots
  /\ NumOfNodes(heap, treeCopy) < 1 + nActions * MaxIterations
  /\ \E f \in {IterateOn(Frame(heap, crand, bandit, handed), treeCopy)} :
       /\ heap' = f.heap
       /\ crand' = f.crand
       /\ fault' = f.fault
       /\ handed' = f.handed
       /\ visitedLog' = f.visitedLog
       /\ rewardLog' = f.rewardLog
       /\ mdpLog' = f.mdpLog
       /\ backupLog' = [f.backupLog EXCEPT
                          !.stacks = <<Len(f.visited), Len(f.rewards)>>]
       /\ caught' = f.thrown
  /\ lastOp' = "iterateCopy"
  /\ bestOut' = NoBest
  /\ queryOut' = NoQuery
  /\ UNCHANGED <<nActions, urandType, mdpKind, bandit, iters, treeCopy, released>>

\* the statement a = b, as lastOp records it
AssignName(a, b) ==
  (IF a = 1 THEN "tree" ELSE "treeCopy") \o " = "
  \o (IF b = 1 THEN "tree" ELSE "treeCopy")

\* a = b for two of the caller's objects, a = a included
Assign ==
  /\ fault = "none"
  /\ \E a, b \in LiveRoots :
       /\ Len(heap) + NumOfNodes(heap, b) - 1 <= MaxHeap
       /\ \E garbageIsNull \in BOOLEAN, flowsOff \in {"none", "undefined"} :
            \E st \in {AssignNode(Store(heap, handed, released), a, b,
                                  garbageIsNull, flowsOff)} :
              /\ heap' = st.heap
              /\ handed' = st.handed
              /\ released' = st.released
              /\ fault' = st.fault
       /\ lastOp' = AssignName(a, b)
  /\ bestOut' = NoBest
  /\ queryOut' = NoQuery
  /\ UNCHANGED <<nActions, urandType, mdpKind, bandit, crand, iters, visitedLog,
                 rewardLog, mdpLog, backupLog, caught, treeCopy>>

RECURSIVE DestroyAll(_, _)
\* the destructors of the objects in q, in that order
DestroyAll(st, q) ==
  IF q = <<>> \/ st.fault # "none" THEN st
  ELSE DestroyAll(DestroyNode(st, Head(q)), Tail(q))

\* the caller's scope ends: the destructors of its objects run, the object
\* constructed last first
Exit ==
  /\ fault = "none"
  /\ Alive(released, 1)
  /\ \E st \in {DestroyAll(Store(heap, handed, released),
                           IF treeCopy = 0 THEN <<1>> ELSE <<treeCopy, 1>>)} :
       /\ heap' = st.heap
       /\ released' = st.released
       /\ fault' = st.fault
  /\ lastOp' = "exit"
  /\ bestOut' = NoBest
  /\ queryOut' = NoQuery
  /\ UNCHANGED <<nActions, urandType, mdpKind, bandit, crand, iters, visitedLog,
                 rewardLog, mdpLog, backupLog, caught, treeCopy, handed>>

\* the caller that copies is run with one reward source and one seed of the
\* C library
InitCopy == Init /\ crand = 0 /\ mdpKind = "Cycle" /\ bandit = 0

\* the last statement was an assignment
Assigned == lastOp \in {AssignName(a, b) : a, b \in {0, 1}}

\* the caller iterates and copies, then assigns at most once, then leaves
NextCopy ==
  \/ ~Assigned /\ Iterate
  \/ ~Assigned /\ IterateCopy
  \/ ~Assigned /\ CopyConstruct
  \/ ~Assigned /\ Assign
  \/ Exit

SpecCopy == InitCopy /\ [][NextCopy]_vars

----------------------------------------------------------------------------
(* A caller that also reads the tree: vValue(), qValue(action) and          *)
(* operator<<, which the harness calls before every iterate.                *)

\* tree.vValue()
VValueCall ==
  /\ fault = "none"
  /\ Alive(released, 1)
  /\ queryOut' = [call |-> "vValue", arg |-> 0, ret |-> <<VValue(heap, 1)>>,
                  read |-> <<>>]
  /\ lastOp' = "query"
  /\ bestOut' = NoBest
  /\ UNCHANGED <<nActions, urandType, mdpKind, bandit, heap, crand, iters, fault,
                 visitedLog, rewardLog, mdpLog, handed, backupLog, caught,
                 treeCopy, released>>

\* tree.qValue(action), for the actions of the tree and one on either side
QValueCall ==
  /\ fault = "none"
  /\ Alive(released, 1)
  /\ \E action \in -1..nActions :
       \E q \in {QValueOn(heap, 1, action)} :
         /\ queryOut' = [call |-> "qValue", arg |-> action, ret |-> q.ret,
                         read |-> q.read]
         /\ fault' = q.fault
  /\ lastOp' = "query"
  /\ bestOut' = NoBest
  /\ UNCHANGED <<nActions, urandType, mdpKind, bandit, heap, crand, iters,
                 visitedLog, rewardLog, mdpLog, handed, backupLog, caught,
                 treeCopy, released>>

\* std::cout << tree
PrintTree ==
  /\ fault = "none"
  /\ Alive(released, 1)
  /\ \E q \in {PrintOn(heap, 1)} :
       /\ queryOut' = [call |-> "operator<<", arg |-> 0, ret |-> q.ret,
                       read |-> q.read]
       /\ fault' = q.fault
  /\ lastOp' = "query"
  /\ bestOut' = NoBest
  /\ UNCHANGED <<nActions, urandType, mdpKind, bandit, heap, crand, iters,
                 visitedLog, rewardLog, mdpLog, handed, backupLog, caught,
                 treeCopy, released>>

\* the reading caller is run with the harness's bandit and one seed of the C
\* library
InitQuery == Init /\ crand = 0 /\ mdpKind = "SimpleBandit_m"

NextQuery == Iterate \/ BestAction \/ VValueCall \/ QValueCall \/ PrintTree

SpecQuery == InitQuery /\ [][NextQuery]_vars

----------------------------------------------------------------------------
(* The harness with a reward source that throws: bandit is the action it    *)
(* throws on, N_ACTIONS for one that never throws.                          *)

InitThrow ==
  /\ nActions \in 1..MaxActions
  /\ urandType \in URandTypes
  /\ mdpKind = "ThrowOn"
  /\ bandit \in 0..nActions
  /\ crand \in 0..RAND_MAX
  /\ \E inGamma \in GammaSet :
       \E inRand \in (IF urandType = "SeqURand" THEN URandSeeds ELSE {0}) :
         heap = <<NewNode(inGamma, inRand)>>
  /\ iters = 0
  /\ fault = "none"
  /\ lastOp = "construct"
  /\ visitedLog = <<>>
  /\ rewardLog = <<>>
  /\ mdpLog = <<>>
  /\ handed = << <<>> >>
  /\ bestOut = NoBest
  /\ backupLog = NoBackup
  /\ caught = NoException
  /\ treeCopy = 0
  /\ released = <<>>
  /\ queryOut = NoQuery

SpecThrow == InitThrow /\ [][Next]_vars

----------------------------------------------------------------------------
(* Properties *)

Nodes(h) == 1..Len(h)

\* the slots of node p as a set of pointers
Slots(h, p) == {h[p].vpChildren_i[k] : k \in 1..nActions}

\* an iterate() call is the step that counts one more completed call
IterateStep == iters' = iters + 1

\* C1: after k calls of iterate() on a freshly constructed root, numOfNodes()
\* on the root is 1 + N*k, for every N and reward source of the model.
C1_NodeCount ==
  fault = "none" /\ NumOfNodes(heap, 1) = 1 + nActions * iters

C1_Witness ==
  /\ iters = MaxIterations
  /\ nActions = MaxActions
  /\ NumOfNodes(heap, 1) = 1 + MaxActions * MaxIterations
  /\ MaxDepth(heap, 1, 0) = 3

\* C2: every node is a leaf with all N slots null, or internal with all N
\* slots holding valid, pairwise distinct children; the leaf flag agrees with
\* the slots and no node is partly expanded.
C2_LeafOrInternal ==
  \A p \in Nodes(heap) :
    \/ /\ heap[p].isLeaf_i
       /\ \A k \in 1..nActions : heap[p].vpChildren_i[k] = 0
    \/ /\ ~heap[p].isLeaf_i
       /\ \A k \in 1..nActions : heap[p].vpChildren_i[k] \in Nodes(heap) \ {p}
       /\ \A j, k \in 1..nActions :
            j # k => heap[p].vpChildren_i[j] # heap[p].vpChildren_i[k]

C2_Witness ==
  /\ iters >= 2
  /\ \E p \in Nodes(heap) : p # 1 /\ ~heap[p].isLeaf_i
  /\ \E p \in Nodes(heap) : heap[p].isLeaf_i /\ heap[p].nVisits_i = 1

\* what one iterate() call does to the tree, read off the step heap -> heap'
\* and the path the call pushed on `visited`
PathEffect ==
  LET path == visitedLog'
      L == Len(path)
      onPath == {path[i] : i \in 1..L}
  IN /\ L >= 2
     /\ path[1] = 1
     /\ \A i \in 1..(L - 1) : path[i + 1] \in Slots(heap', path[i])
     /\ \A i, j \in 1..L : i # j => path[i] # path[j]
     \* the path follows internal nodes to a node that was a leaf, and ends
     \* one edge further, at a child this call created
     /\ \A i \in 1..(L - 2) : path[i] \in Nodes(heap) /\ ~heap[path[i]].isLeaf_i
     /\ path[L - 1] \in Nodes(heap) /\ heap[path[L - 1]].isLeaf_i
     /\ path[L] \notin Nodes(heap) /\ path[L] \in Nodes(heap')
     \* every node of the path: one more visit, one more value
     /\ \A p \in onPath :
          LET before == IF p \in Nodes(heap) THEN heap[p]
                        ELSE [nVisits_i |-> 0, totValue_i |-> 0]
              got == handed'[p][Len(handed'[p])]
          IN /\ heap'[p].nVisits_i = before.nVisits_i + 1
             /\ heap'[p].totValue_i = before.totValue_i + got
             /\ Len(handed'[p]) = heap'[p].nVisits_i
     \* every other node that existed is as it was
     /\ \A p \in Nodes(heap) \ onPath :
          /\ heap'[p].nVisits_i = heap[p].nVisits_i
          /\ heap'[p].totValue_i = heap[p].totValue_i
          /\ heap'[p].isLeaf_i = heap[p].isLeaf_i
          /\ heap'[p].vpChildren_i = heap[p].vpChildren_i
          /\ handed'[p] = handed[p]
     \* the new nodes are the N children of the expanded leaf; the N-1 off
     \* the path were never visited
     /\ Nodes(heap') \ Nodes(heap) = Slots(heap', path[L - 1])
     /\ Len(heap') = Len(heap) + nActions
     /\ \A p \in (Nodes(heap') \ Nodes(heap)) \ {path[L]} :
          heap'[p].nVisits_i = 0 /\ heap'[p].totValue_i = 0

\* C3: one iterate() call visits a path from the root that ends at a child
\* created by this call; every node of the path gets one more visit and one
\* backed-up value; every other existing node keeps its statistics, leaf
\* status and children; the new siblings off the path have no visits.
C3_IterateFrame == [][IterateStep => PathEffect]_vars

C3_Witness ==
  /\ iters = 3
  /\ Len(visitedLog) = 3
  /\ nActions >= 2
  /\ \E p \in Nodes(heap) : p \notin {visitedLog[i] : i \in 1..3}
                            /\ heap[p].nVisits_i = 1

RECURSIVE SumSeq(_)
SumSeq(q) == IF q = <<>> THEN 0 ELSE q[1] + SumSeq(Tail(q))

\* the harness's run of the testable property: N = 2, gamma = 0.9, a reward
\* source that is constantly 1.0, a random source that is constantly 0
Controlled ==
  /\ nActions = 2
  /\ heap[1].gamma_i = DEFAULT_GAMMA
  /\ urandType = "ZeroURand"
  /\ mdpKind = "Const" /\ bandit = 0

\* C4: totValue_i is the sum and nVisits_i the number of the values handed to
\* a node by backpropagation, so vValue() is their mean, and qValue(k) is the
\* mean of child k.  In the controlled run, after 3 calls, the root and its
\* two children hold the statistics the backup rule gives by hand: the first
\* call ends at child 1, the second expands child 0, the third goes two
\* levels below child 0; with R the rollout's return, A = 1 + gamma*R,
\* B = 1 + gamma*A and C = 1 + gamma*B, child 1 holds A once, child 0 holds
\* B and C, and the root holds gamma*A, gamma*B and gamma*C.
C4_MeanOfBackups ==
  /\ \A p \in Nodes(heap) :
       /\ heap[p].nVisits_i = Len(handed[p])
       /\ heap[p].totValue_i = SumSeq(handed[p])
       /\ heap[p].nVisits_i >= 1 =>
            VValue(heap, p) = <<SumSeq(handed[p]), Len(handed[p])>>
       /\ ~heap[p].isLeaf_i =>
            \A k \in 0..(nActions - 1) :
              LET c == heap[p].vpChildren_i[k + 1]
              IN QValue(heap, p, k) =
                   IF handed[c] = <<>> THEN "nan"
                   ELSE <<SumSeq(handed[c]), Len(handed[c])>>
  /\ (Controlled /\ iters = 3) =>
       LET R == 9948327
           A == Scale + FMul(DEFAULT_GAMMA, R)
           B == Scale + FMul(DEFAULT_GAMMA, A)
           C == Scale + FMul(DEFAULT_GAMMA, B)
           child0 == heap[1].vpChildren_i[1]
           child1 == heap[1].vpChildren_i[2]
       IN /\ heap[1].nVisits_i = 3
          /\ heap[1].totValue_i = FMul(DEFAULT_GAMMA, A)
                                  + FMul(DEFAULT_GAMMA, B)
                                  + FMul(DEFAULT_GAMMA, C)
          /\ heap[child0].nVisits_i = 2
          /\ heap[child0].totValue_i = B + C
          /\ heap[child1].nVisits_i = 1
          /\ heap[child1].totValue_i = A

C4_Witness ==
  /\ Controlled
  /\ iters = 3
  /\ heap[1].nVisits_i = 3
  /\ heap[heap[1].vpChildren_i[1]].nVisits_i = 2

\* rewards of the caller's source lie in [0, 1)
RewardsBelowOne == ~(mdpKind = "Const" /\ bandit = 0)

\* C5: on a root iterated at least N times, with rewards in [0,1),
\* bestAction() returns the index the harness computes from the qValues: the
\* last k whose qValue is at least every earlier one.
C5_BestIsHighestMean ==
  (lastOp = "bestAction" /\ fault = "none" /\ iters >= nActions
   /\ RewardsBelowOne)
    => bestOut.ret = CorrectAction(heap, 1)

RECURSIVE ClaimedBestLoop(_, _, _, _, _)
\* the scan of bestAction as the claim describes it: the mean of each child
\* plus a noise rand_i()*EPSILON drawn from the node's own random source
ClaimedBestLoop(f, p, k, selected, bestValue) ==
  IF k >= nActions THEN selected
  ELSE LET pCur == f.heap[p].vpChildren_i[k + 1]
           d == Draw(f, p)
           expValue == AddNoise(FDiv(f.heap[pCur].totValue_i,
                                     f.heap[pCur].nVisits_i * Scale + EPSILON),
                                d.v * EPSILON)
       IN IF GE(expValue, bestValue)
          THEN ClaimedBestLoop(d.f, p, k + 1, k, expValue)
          ELSE ClaimedBestLoop(d.f, p, k + 1, selected, bestValue)

\* a bestAction() call is the step that leaves lastOp at "bestAction"
BestActionStep == lastOp' = "bestAction"

\* C6: on an internal node bestAction() returns the index in [0,N) that
\* maximises mean + noise, the noise drawn from the node's random source,
\* the greatest index winning among equals; the tree is left as it was.
C6_BestActionScan ==
  [][(BestActionStep /\ ~heap[1].isLeaf_i) =>
       /\ bestOut'.ret \in 0..(nActions - 1)
       /\ bestOut'.ret =
            ClaimedBestLoop(Frame(heap, crand, bandit, handed), 1, 0, 0,
                            LowestScore)
       /\ \A p \in Nodes(heap) :
            /\ heap'[p].nVisits_i = heap[p].nVisits_i
            /\ heap'[p].totValue_i = heap[p].totValue_i
            /\ heap'[p].isLeaf_i = heap[p].isLeaf_i
            /\ heap'[p].vpChildren_i = heap[p].vpChildren_i
       /\ Len(heap') = Len(heap)]_vars

\* C7: a freshly constructed root is a leaf, and on a leaf bestAction()
\* returns an index in [0,N) whatever the random source draws, reads no
\* child slot, creates no child, and leaves the node an unvisited leaf.
C7_LeafBestAction ==
  /\ iters = 0 => IsLeaf(heap, 1)
  /\ (lastOp = "bestAction" /\ iters = 0) =>
       /\ fault = "none"
       /\ bestOut.ret \in 0..(nActions - 1)
       /\ bestOut.read = <<>>
       /\ Len(heap) = 1
       /\ IsLeaf(heap, 1)
       /\ \A k \in 1..nActions : heap[1].vpChildren_i[k] = 0
       /\ heap[1].nVisits_i = 0 /\ heap[1].totValue_i = 0

C7_Witness ==
  /\ lastOp = "bestAction" /\ iters = 0
  /\ nActions = MaxActions
  /\ bestOut.ret = 1

\* C8: maxDepth() is 1 on a lone leaf root, lies in 1..k+1 after k iterate()
\* calls and is at least 2 once k >= 1; an iterate() call never lowers it
\* and raises it by at most 1.
C8_MaxDepth ==
  /\ [](/\ MaxDepth(heap, 1, 0) >= 1
        /\ MaxDepth(heap, 1, 0) <= iters + 1
        /\ iters = 0 => MaxDepth(heap, 1, 0) = 1
        /\ iters >= 1 => MaxDepth(heap, 1, 0) >= 2)
  /\ [][IterateStep =>
          /\ MaxDepth(heap', 1, 0) >= MaxDepth(heap, 1, 0)
          /\ MaxDepth(heap', 1, 0) <= MaxDepth(heap, 1, 0) + 1]_vars

C8_Witness ==
  /\ iters = 3
  /\ MaxDepth(heap, 1, 0) = 3
  /\ Len(visitedLog) = 3

\* C9: a node is created as an unvisited leaf (the root by construction, a
\* child by expansion: when the call that created it ends it is a leaf and
\* holds nothing but what that call's backup handed to it); an internal node
\* stays internal and iterate() never replaces, removes or reorders its
\* children; numOfNodes() of the root never decreases.
C9_OnlyGrows ==
  /\ [](lastOp = "construct" =>
          /\ heap[1].isLeaf_i
          /\ heap[1].nVisits_i = 0 /\ heap[1].totValue_i = 0)
  /\ [][IterateStep =>
          /\ \A p \in Nodes(heap) :
               ~heap[p].isLeaf_i =>
                 /\ p \in Nodes(heap')
                 /\ ~heap'[p].isLeaf_i
                 /\ heap'[p].vpChildren_i = heap[p].vpChildren_i
          /\ \A p \in Nodes(heap') \ Nodes(heap) :
               /\ heap'[p].isLeaf_i
               /\ heap'[p].nVisits_i = Len(handed'[p])
               /\ heap'[p].totValue_i = SumSeq(handed'[p])
          /\ NumOfNodes(heap', 1) >= NumOfNodes(heap, 1)]_vars

C9_Witness ==
  /\ iters = 3
  /\ \E p \in Nodes(heap) : p # 1 /\ ~heap[p].isLeaf_i /\ heap[p].nVisits_i >= 2

\* the action that leads from node p to its child c
ActionInto(h, p, c) == CHOOSE k \in 0..(nActions - 1) : h[p].vpChildren_i[k + 1] = c

\* C10: iterate() calls the reward source once per edge of the path, in
\* root-to-leaf order and with the action of that edge, the edge into the
\* new child included; only then come the rollout's calls, exactly 50 of
\* them; every action passed is in [0,N).
C10_RewardQueries ==
  iters >= 1 =>
    LET edges == Len(visitedLog) - 1
    IN /\ Len(mdpLog) = edges + 50
       /\ \A i \in 1..edges :
            /\ mdpLog[i].from = "iterate"
            /\ mdpLog[i].a = ActionInto(heap, visitedLog[i], visitedLog[i + 1])
       /\ \A i \in (edges + 1)..Len(mdpLog) : mdpLog[i].from = "rollOut"
       /\ \A i \in 1..Len(mdpLog) : mdpLog[i].a \in 0..(nActions - 1)

C10_Witness ==
  /\ iters >= 2
  /\ Len(visitedLog) = 3
  /\ \E i, j \in 4..Len(mdpLog) : mdpLog[i].a # mdpLog[j].a

\* the node whose slot holds c
ParentOf(h, c) == CHOOSE p \in Nodes(h) : c \in Slots(h, p)

\* C11: after any sequence of iterate() calls every node of the tree has the
\* root's gamma, and every child created by expand() was given its parent's
\* random source as it was at expansion time, not a default-constructed one.
C11_GammaInherited ==
  /\ [](\A p \in Nodes(heap) : heap[p].gamma_i = heap[1].gamma_i)
  /\ [][IterateStep =>
          \A c \in Nodes(heap') \ Nodes(heap) :
            (heap'[c].isLeaf_i /\ heap'[c].nVisits_i = 0) =>
              heap'[c].rand_i = heap[ParentOf(heap', c)].rand_i]_vars


RECURSIVE TreeOf(_, _)
\* the nodes of the tree with root r: r and, below an internal node, what its
\* slots lead to
TreeOf(h, r) ==
  IF h[r].isLeaf_i THEN {r}
  ELSE {r} \cup UNION {IF h[r].vpChildren_i[k] \in Nodes(h)
                       THEN TreeOf(h, h[r].vpChildren_i[k]) ELSE {}
                       : k \in 1..nActions}

\* isLeaf_i, the slots, nVisits_i and totValue_i of node p are the same in g
\* and h
SameNode(g, h, p) ==
  /\ g[p].isLeaf_i = h[p].isLeaf_i
  /\ g[p].vpChildren_i = h[p].vpChildren_i
  /\ g[p].nVisits_i = h[p].nVisits_i
  /\ g[p].totValue_i = h[p].totValue_i

\* C12: a tree and its copy share no node: iterate() on the copy leaves the
\* structure, visit count and total value of every node of the original as
\* they were, at every depth, and iterate() on the original leaves every
\* node of the copy as it was.
C12_CopyIndependent ==
  /\ []((fault = "none" /\ LiveRoots = {1, treeCopy}) =>
          TreeOf(heap, 1) \cap TreeOf(heap, treeCopy) = {})
  /\ [][(lastOp' = "iterateCopy") =>
          /\ TreeOf(heap', 1) = TreeOf(heap, 1)
          /\ \A p \in TreeOf(heap, 1) : SameNode(heap', heap, p)]_vars
  /\ [][(IterateStep /\ treeCopy # 0) =>
          /\ TreeOf(heap', treeCopy) = TreeOf(heap, treeCopy)
          /\ \A p \in TreeOf(heap, treeCopy) : SameNode(heap', heap, p)]_vars

C12_Witness ==
  /\ lastOp = "iterateCopy"
  /\ fault = "none"
  /\ iters >= 2
  /\ MaxDepth(heap, treeCopy, 0) = 3
  /\ NumOfNodes(heap, treeCopy) > NumOfNodes(heap, 1)
  /\ NumOfNodes(heap, treeCopy) >= 1 + 2 * nActions

RECURSIVE SameShape(_, _, _)
\* the trees with roots a and b have the same leaf status, visit count, total
\* value and gamma at every corresponding position
SameShape(h, a, b) ==
  /\ h[a].isLeaf_i = h[b].isLeaf_i
  /\ h[a].nVisits_i = h[b].nVisits_i
  /\ h[a].totValue_i = h[b].totValue_i
  /\ h[a].gamma_i = h[b].gamma_i
  /\ ~h[a].isLeaf_i =>
       \A k \in 1..nActions :
         /\ h[a].vpChildren_i[k] \in Nodes(h)
         /\ h[b].vpChildren_i[k] \in Nodes(h)
         /\ SameShape(h, h[a].vpChildren_i[k], h[b].vpChildren_i[k])

\* the child-slot invariant at node p: a leaf with all slots null, or an
\* internal node with all slots holding valid, pairwise distinct children
SlotInvariant(h, p) ==
  \/ /\ h[p].isLeaf_i
     /\ \A k \in 1..nActions : h[p].vpChildren_i[k] = 0
  \/ /\ ~h[p].isLeaf_i
     /\ \A k \in 1..nActions : h[p].vpChildren_i[k] \in Nodes(h) \ {p}
     /\ \A j, k \in 1..nActions :
          j # k => h[p].vpChildren_i[j] # h[p].vpChildren_i[k]

\* C13: a copy-constructed tree has the numOfNodes(), the maxDepth() and, at
\* every position, the leaf status, statistics and gamma of its source, and
\* every node of it satisfies the child-slot invariant: the copy of a leaf is
\* a leaf with all slots null, the copy of an internal node has fresh
\* children.
C13_CopyIdentical ==
  (lastOp = "copy" /\ fault = "none") =>
    /\ NumOfNodes(heap, treeCopy) = NumOfNodes(heap, 1)
    /\ MaxDepth(heap, treeCopy, 0) = MaxDepth(heap, 1, 0)
    /\ SameShape(heap, treeCopy, 1)
    /\ \A p \in TreeOf(heap, treeCopy) :
         /\ SlotInvariant(heap, p)
         /\ p \notin TreeOf(heap, 1)

\* how often node p was released
Releases(rel, p) == Cardinality({i \in 1..Len(rel) : rel[i] = p})

\* C14: after a = b for two distinct trees, every node of a's previous
\* subtree was released exactly once, a has the shape and statistics of b,
\* a and b share no node, b is as it was, and every node of both satisfies
\* the child-slot invariant.
C14_AssignCopies ==
  [][\A a, b \in {1, treeCopy} :
       (a # b /\ lastOp' = AssignName(a, b) /\ lastOp # lastOp') =>
         /\ fault' = "none"
         /\ \A p \in TreeOf(heap, a) \ {a} :
              Releases(released, p) = 0 /\ Releases(released', p) = 1
         /\ SameShape(heap', a, b)
         /\ TreeOf(heap', a) \cap TreeOf(heap', b) = {}
         /\ TreeOf(heap', b) = TreeOf(heap, b)
         /\ \A p \in TreeOf(heap, b) : heap'[p] = heap[p]
         /\ \A p \in TreeOf(heap', a) \cup TreeOf(heap', b) :
              SlotInvariant(heap', p)]_vars

\* the nodes that were allocated and not released
Allocated == {p \in Nodes(heap) : Alive(released, p)}

\* C15: in every state reached by construction, iterate(), copy construction
\* and assignment, every allocated node that is not a root is held by
\* exactly one slot of one allocated node and belongs to the tree of one of
\* the caller's objects; no node is released twice; once the caller's objects
\* are destroyed no node remains allocated.
C15_StrictTreeAndRelease ==
  fault = "none" =>
    /\ \A p \in Nodes(heap) : Releases(released, p) <= 1
    /\ \A p \in Allocated \ LiveRoots :
         Cardinality({qk \in Allocated \X (1..nActions) :
                        heap[qk[1]].vpChildren_i[qk[2]] = p}) = 1
    /\ \A r \in LiveRoots :
         \A q \in Allocated : r \notin Slots(heap, q)
    /\ Allocated = UNION {TreeOf(heap, r) : r \in LiveRoots}
    /\ \A r, t \in LiveRoots : r # t => TreeOf(heap, r) \cap TreeOf(heap, t) = {}
    /\ lastOp = "exit" => Allocated = {}

C15_Witness ==
  /\ lastOp = "exit"
  /\ fault = "none"
  /\ treeCopy # 0
  /\ Len(released) = Len(heap)
  /\ Len(heap) > 2 * (1 + nActions)
  /\ released[1] # treeCopy


\* the random source is an object of the tree and the reward source is
\* deterministic: neither calls rand()
OwnSources ==
  urandType \in {"ZeroURand", "SeqURand"} /\ mdpKind \in {"Const", "Cycle"}

\* C16: with the tree, its random sources and the reward source the same,
\* iterate() builds the same tree and bestAction() returns the same action
\* whatever the state of the C library's generator, equal child means
\* included: nothing depends on ambient global random state.
C16_Deterministic ==
  (fault = "none" /\ OwnSources) =>
    \A c \in 0..RAND_MAX :
      /\ IterateOn(Frame(heap, c, bandit, handed), 1).heap
           = IterateOn(Frame(heap, crand, bandit, handed), 1).heap
      /\ BestActionOn(Frame(heap, c, bandit, handed), 1).ret
           = BestActionOn(Frame(heap, crand, bandit, handed), 1).ret


\* C17 as claimed: vValue() on a node with no visits, and qValue(k) whose
\* child k has no visits, end in an assertion failure and return nothing.
C17_UnvisitedIsFatal ==
  /\ (queryOut.call = "vValue" /\ heap[1].nVisits_i = 0) =>
       fault = "assert" /\ queryOut.ret = <<>>
  /\ (queryOut.call = "qValue" /\ ~IsLeaf(heap, 1)
      /\ queryOut.arg \in 0..(nActions - 1)
      /\ heap[heap[1].vpChildren_i[queryOut.arg + 1]].nVisits_i = 0) =>
       fault = "assert" /\ queryOut.ret = <<>>

\* C17, amended: vValue() on a node with no visits does not fail: it returns
\* 0.0/0.0, a NaN; so does qValue(k) on an internal node whose child k has
\* no visits, and operator<< on a fresh root prints V as that NaN.
C17_UnvisitedIsNaN ==
  /\ (queryOut.call = "vValue" /\ heap[1].nVisits_i = 0) =>
       fault = "none" /\ queryOut.ret = <<"nan">>
  /\ (queryOut.call = "qValue" /\ ~IsLeaf(heap, 1)
      /\ queryOut.arg \in 0..(nActions - 1)
      /\ heap[heap[1].vpChildren_i[queryOut.arg + 1]].nVisits_i = 0) =>
       fault = "none" /\ queryOut.ret = <<"nan">>
  /\ (queryOut.call = "operator<<" /\ heap[1].nVisits_i = 0) =>
       fault = "none" /\ queryOut.ret = <<"nan">>

C17_Witness ==
  /\ queryOut.call = "qValue"
  /\ iters = 1
  /\ queryOut.arg = 0
  /\ heap[heap[1].vpChildren_i[1]].nVisits_i = 0
  /\ queryOut.ret = <<"nan">>

\* C18: qValue(action) with action < 0 or action >= N, and every qValue call
\* on a leaf, ends in an assertion failure before any child slot is read and
\* leaves the tree as it was.
C18_QValuePrecondition ==
  [][(queryOut'.call = "qValue"
      /\ (queryOut'.arg < 0 \/ queryOut'.arg >= nActions \/ IsLeaf(heap, 1))) =>
       /\ fault' = "assert"
       /\ queryOut'.read = <<>>
       /\ heap' = heap]_vars


\* C19: when the reward source throws at one of its calls during iterate()
\* (in the descent, after the expansion, or in the rollout), that call is the
\* last one iterate() makes and the exception it threw is the one that
\* reaches the caller; when no call throws, none reaches the caller.
C19_ExceptionPropagates ==
  (lastOp = "iterate") =>
    LET threw == \E i \in 1..Len(mdpLog) : mdpLog[i].a = bandit
    IN /\ fault \in {"none", "exception"}
       /\ threw <=> fault = "exception"
       /\ threw =>
            /\ mdpLog[Len(mdpLog)].a = bandit
            /\ \A i \in 1..(Len(mdpLog) - 1) : mdpLog[i].a # bandit
            /\ caught = [action |-> bandit, call |-> Len(mdpLog)]
       /\ ~threw => caught = NoException

C19_Witness ==
  /\ lastOp = "iterate"
  /\ fault = "exception"
  /\ iters = 2
  /\ ~IsLeaf(heap, 1)
  /\ heap[1].nVisits_i = 1
  /\ caught.call = 1
  /\ mdpLog[1].from = "iterate"

RECURSIVE Backed(_, _, _, _)
\* the value the backup rule hands to the i-th node of a path whose rewards
\* are r, with discount factor g and rollout estimate R
Backed(i, r, g, R) ==
  IF i = Len(r) THEN r[i] + FMul(g, R)
  ELSE r[i] + FMul(g, Backed(i + 1, r, g, R))

\* the sequence q, last element first
Reversed(q) == [i \in 1..Len(q) |-> q[Len(q) + 1 - i]]

\* C20: one iterate() call with path n_0..n_L, rewards r_0 = 0, r_1..r_L and
\* rollout estimate R hands v_L = r_L + gamma*R to n_L and
\* v_i = r_i + gamma*v_(i+1) to n_i, gamma being the root's discount factor;
\* the nodes are updated from n_L up to the root, each once, and the two
\* stacks stay in step.
C20_BackupRule ==
  [][IterateStep =>
       LET path == visitedLog'
           gamma == heap[1].gamma_i
       IN /\ fault' = "none"
          /\ Len(rewardLog') = Len(path)
          /\ rewardLog'[1] = 0
          /\ mdpKind = "Const" =>
               \A i \in 2..Len(path) : rewardLog'[i] = Scale - bandit * Scale
          /\ \A i \in 1..Len(path) :
               handed'[path[i]][Len(handed'[path[i]])]
                 = Backed(i, rewardLog', gamma, backupLog'.R)
          /\ backupLog'.updated = Reversed(path)]_vars

C20_Witness ==
  /\ lastOp = "iterate"
  /\ iters = 3
  /\ Len(visitedLog) = 3
  /\ heap[1].gamma_i # DEFAULT_GAMMA
  /\ rewardLog[2] # rewardLog[3]
  /\ backupLog.updated = <<visitedLog[3], visitedLog[2], 1>>
  /\ backupLog.R > 0

\* C21: expand() on a leaf allocates exactly N fresh children, one per
\* action, each an unvisited leaf with total value 0, makes the node internal
\* and touches nothing else; expand() on an internal node changes nothing,
\* so a second expand() has no effect; the expand() inside iterate() does
\* this to the leaf the descent stopped at.
C21_ExpandOnce ==
  /\ [](\A p \in Nodes(heap) :
          LET f == Frame(heap, crand, bandit, handed)
              x == Expand(f, p)
              fresh == (Len(heap) + 1)..(Len(heap) + nActions)
          IN /\ IsLeaf(heap, p) =>
                  /\ Len(x.heap) = Len(heap) + nActions
                  /\ ~IsLeaf(x.heap, p)
                  /\ \A k \in 1..nActions : x.heap[p].vpChildren_i[k] \in fresh
                  /\ \A j, k \in 1..nActions :
                       j # k => x.heap[p].vpChildren_i[j] # x.heap[p].vpChildren_i[k]
                  /\ \A c \in fresh :
                       /\ IsLeaf(x.heap, c)
                       /\ x.heap[c].nVisits_i = 0
                       /\ x.heap[c].totValue_i = 0
                       /\ \A k \in 1..nActions : x.heap[c].vpChildren_i[k] = 0
                  /\ x.heap[p].nVisits_i = heap[p].nVisits_i
                  /\ x.heap[p].totValue_i = heap[p].totValue_i
                  /\ \A q \in Nodes(heap) \ {p} : x.heap[q] = heap[q]
             /\ ~IsLeaf(heap, p) => x = f
             /\ Expand(x, p) = x)
  /\ [][IterateStep =>
          LET n == visitedLog'[Len(visitedLog') - 1]
          IN /\ IsLeaf(heap, n) /\ ~IsLeaf(heap', n)
             /\ Slots(heap', n) = Nodes(heap') \ Nodes(heap)
             /\ Cardinality(Slots(heap', n)) = nActions
             /\ \A p \in Nodes(heap) \ {n} :
                  /\ heap'[p].isLeaf_i = heap[p].isLeaf_i
                  /\ heap'[p].vpChildren_i = heap[p].vpChildren_i]_vars

C21_Witness ==
  /\ lastOp = "iterate"
  /\ nActions >= 2
  /\ Len(visitedLog) = 3
  /\ heap[visitedLog[2]].nVisits_i = 2
  /\ ~IsLeaf(heap, visitedLog[2])
  /\ Cardinality({c \in Slots(heap, visitedLog[2]) :
                    IsLeaf(heap, c) /\ heap[c].nVisits_i = 0}) = nActions - 1

\* the score of child c of node p without the noise:
\* totalValue/(visitCount + 1e-6) + sqrt(ln(p.visitCount + 1)/(visitCount + 1e-6))
ClaimedScore(h, p, c) ==
  FDiv(h[c].totValue_i, h[c].nVisits_i * Scale + EPSILON)
  + SqrtOfQuotient(Log(h[p].nVisits_i + 1), h[c].nVisits_i * Scale + EPSILON)

RECURSIVE NoiseSeq(_, _, _)
\* what the random source of node p returns at its next n calls
NoiseSeq(f, p, n) ==
  IF n = 0 THEN <<>>
  ELSE LET d == Draw(f, p) IN <<d.v>> \o NoiseSeq(d.f, p, n - 1)

\* selectAction() on the internal node p of frame f returns the greatest
\* index among those of maximal score and changes no node
SelectsMaximal(f, p) ==
  \A s \in {SelectAction(f, p)}, noise \in {NoiseSeq(f, p, nActions)} :
   \A score \in {[k \in 0..(nActions - 1) |->
                   AddNoise(ClaimedScore(f.heap, p, f.heap[p].vpChildren_i[k + 1]),
                            noise[k + 1] * EPSILON)]} :
     /\ s.f.fault = "none"
     /\ s.ret \in 0..(nActions - 1)
     /\ \A j \in 0..(nActions - 1) : GE(score[s.ret], score[j])
     /\ \A j \in (s.ret + 1)..(nActions - 1) : ~GE(score[j], score[s.ret])
     /\ (urandType = "ZeroURand"
         /\ \A c \in Slots(f.heap, p) : f.heap[c].nVisits_i = 0) =>
          s.ret = nActions - 1
     /\ Len(s.f.heap) = Len(f.heap)
     /\ \A q \in Nodes(f.heap) : SameNode(s.f.heap, f.heap, q)
     /\ s.f.handed = f.handed

\* C22: selectAction() on an internal node returns the index in [0,N) of
\* maximal score (mean + exploration term + noise of the random source), the
\* greatest index among equal maxima, which is N-1 when the noise is zero
\* and no child was visited; it changes no node's structure or statistics.
\* A node changes only in a call whose path holds it: the property is
\* checked on the root, on every node of the last path and on the node
\* created last, a leaf being expanded first; and the first action of
\* iterate() is the one selectAction() returns on the root.
C22_SelectMaximises ==
  /\ [](\A f \in {Frame(heap, crand, bandit, handed)} :
          \A p \in {1, Len(heap)} \cup {visitedLog[i] : i \in 1..Len(visitedLog)} :
            SelectsMaximal(IF IsLeaf(heap, p) THEN Expand(f, p) ELSE f, p))
  /\ [][IterateStep =>
          \A f \in {Frame(heap, crand, bandit, handed)} :
            \A s \in {SelectAction(IF IsLeaf(heap, 1) THEN Expand(f, 1) ELSE f, 1)} :
              /\ mdpLog'[1].a = s.ret
              /\ visitedLog'[2] = heap'[1].vpChildren_i[s.ret + 1]]_vars

C22_Witness ==
  /\ lastOp = "iterate"
  /\ urandType = "ZeroURand"
  /\ nActions = MaxActions
  /\ iters = 2
  /\ mdpLog[1].a = nActions - 2
  /\ heap[heap[1].vpChildren_i[nActions]].nVisits_i = 1

RECURSIVE DiscountedSum(_, _, _, _)
\* the sum over the calls q[i], q[i+1], ... of discount * reward, the discount
\* being d at q[i] and g times as much at each later call
DiscountedSum(q, i, g, d) ==
  IF i > Len(q) THEN 0
  ELSE FMul(d, q[i].r) + DiscountedSum(q, i + 1, g, FMul(d, g))

\* the random source and the reward source do not draw from the same
\* generator, so what one returns does not depend on the calls of the other
SourcesApart == ~(urandType = "SimpleURand" /\ mdpKind = "SimpleBandit_m")

\* the rollout on node p of frame f: 50 steps, each with one sampled action in
\* [0,N) and one call of the reward source for it; the discounted sum of the
\* rewards returned; no node created or changed
RollsOut(f, p) ==
  \A r \in {RollOut(f, p)}, noise \in {NoiseSeq(f, p, 50)} :
   \A q \in {r.f.mdpLog} :
     /\ r.f.fault = "none"
     /\ Len(q) = 50
     /\ \A t \in 1..50 :
          /\ q[t].from = "rollOut"
          /\ q[t].a \in 0..(nActions - 1)
          /\ SourcesApart => q[t].a = (noise[t] * nActions) \div Scale
          /\ mdpKind = "Const" => q[t].r = Scale - f.mdp * Scale
          /\ mdpKind = "Cycle" =>
               q[t].r = ((((f.mdp + t - 1) % 2) + q[t].a) % 4) * (Scale \div 4)
     /\ r.ret = DiscountedSum(q, 1, f.heap[p].gamma_i, Scale)
     /\ Len(r.f.heap) = Len(f.heap)
     /\ \A n \in Nodes(f.heap) : SameNode(r.f.heap, f.heap, n)
     /\ r.f.handed = f.handed

\* C23: the rollout takes exactly 50 steps; at each it samples an action in
\* [0,N) from the random source and calls the reward source once for it; it
\* returns the sum of gamma^t * reward_t; it creates no node and changes no
\* node's visit count, total value or leaf status.  rollOut reads nothing of
\* the tree but the node's gamma and random source: it is checked on the
\* root and on the node created last up to the first iterate() call, and on
\* the rollout every iterate() call made.
C23_RollOut ==
  /\ [](iters <= 1 =>
          \A p \in {1, Len(heap)} :
            RollsOut(Frame(heap, crand, bandit, handed), p))
  /\ [][IterateStep =>
          LET edges == Len(visitedLog') - 1
          IN \A q \in {SubSeq(mdpLog', edges + 1, Len(mdpLog'))} :
             /\ Len(q) = 50
             /\ \A t \in 1..Len(q) :
                  q[t].from = "rollOut" /\ q[t].a \in 0..(nActions - 1)
             /\ \A t \in 1..edges : mdpLog'[t].from = "iterate"
             /\ backupLog'.R = DiscountedSum(q, 1, heap[1].gamma_i, Scale)
             /\ Nodes(heap') \ Nodes(heap)
                  = Slots(heap', visitedLog'[Len(visitedLog') - 1])
             /\ \A p \in Nodes(heap) \ {visitedLog'[i] : i \in 1..edges} :
                  SameNode(heap', heap, p)]_vars

C23_Witness ==
  /\ lastOp = "iterate"
  /\ mdpKind = "Cycle"
  /\ urandType = "SeqURand"
  /\ nActions >= 2
  /\ heap[1].gamma_i = Scale \div 2
  /\ Len(mdpLog) = Len(visitedLog) - 1 + 50
  /\ \E i, j \in Len(visitedLog)..Len(mdpLog) :
       mdpLog[i].a # mdpLog[j].a /\ mdpLog[i].r # mdpLog[j].r
  /\ backupLog.R > Scale \div 2

\* the visit count of node p in heap h, 0 for a node not created yet
VisitsIn(h, p) == IF p \in Nodes(h) THEN h[p].nVisits_i ELSE 0

\* the sum of the visit counts of the children of the internal node p
ChildVisits(h, p) == SumSeq([k \in 1..nActions |-> h[h[p].vpChildren_i[k]].nVisits_i])

\* C24: after k iterate() calls on a fresh root the root's visit count is k
\* and is the sum of its children's; an iterate() call adds one to the visit
\* count of every node of its path and nothing to any other, so a node's
\* visit count is the number of calls whose path held it; no step lowers a
\* visit count.
C24_VisitCounts ==
  /\ [](/\ heap[1].nVisits_i = iters
        /\ IsLeaf(heap, 1) <=> iters = 0
        /\ ~IsLeaf(heap, 1) => ChildVisits(heap, 1) = iters)
  /\ [][IterateStep =>
          \A p \in Nodes(heap') :
            heap'[p].nVisits_i =
              VisitsIn(heap, p)
              + Cardinality({i \in 1..Len(visitedLog') : visitedLog'[i] = p})]_vars
  /\ [][\A p \in Nodes(heap) :
          p \in Nodes(heap') /\ heap'[p].nVisits_i >= heap[p].nVisits_i]_vars

C24_Witness ==
  /\ iters = 3
  /\ nActions >= 2
  /\ heap[1].nVisits_i = 3
  /\ \E k \in 1..nActions : heap[heap[1].vpChildren_i[k]].nVisits_i = 2
  /\ \E p \in Nodes(heap) : p \notin Slots(heap, 1) /\ heap[p].nVisits_i = 1
  /\ \E p \in Nodes(heap) : heap[p].nVisits_i = 0

\* C25: every iterate() call returns: its descent loop takes at most
\* maxDepth()-1 steps, its rollout exactly 50, and its unwind loop one step
\* per node of the path, after which both stacks are empty.
C25_IterateTerminates ==
  [][IterateStep =>
       LET L == Len(visitedLog')
           descent == L - 2
       IN /\ fault' = "none"
          /\ descent >= 0
          /\ descent <= MaxDepth(heap, 1, 0) - 1
          /\ Cardinality({i \in 1..Len(mdpLog') : mdpLog'[i].from = "rollOut"}) = 50
          /\ Len(mdpLog') = descent + 1 + 50
          /\ Len(backupLog'.updated) = L
          /\ Len(rewardLog') = L
          /\ backupLog'.stacks = <<0, 0>>]_vars

C25_Witness ==
  /\ lastOp = "iterate"
  /\ iters = 3
  /\ Len(visitedLog) = 4
  /\ MaxDepth(heap, 1, 0) = 4
  /\ Len(backupLog.updated) = 4
  /\ backupLog.stacks = <<0, 0>>

\* C26: in any sequence of iterate() and bestAction() calls on a constructed
\* root, with numOfNodes() and maxDepth() called in every state, no assert of
\* the engine fails: selectAction() never runs on a leaf, no slot of an
\* internal node is null when it is read, and the two stacks of iterate()
\* have the same size throughout the unwind loop.
C26_NoAssertFails ==
  /\ fault = "none"
  /\ \A p \in Nodes(heap) :
       ~IsLeaf(heap, p) => \A k \in 1..nActions : heap[p].vpChildren_i[k] # 0
  /\ NumOfNodes(heap, 1) = Len(heap)
  /\ MaxDepth(heap, 1, 0) >= 1
  /\ Len(rewardLog) = Len(visitedLog)
  /\ Len(backupLog.updated) = Len(visitedLog)
  /\ (lastOp = "bestAction" /\ ~IsLeaf(heap, 1)) =>
       bestOut.read = [k \in 1..nActions |-> k - 1]

C26_Witness ==
  /\ lastOp = "bestAction"
  /\ fault = "none"
  /\ iters = 3
  /\ nActions = MaxActions
  /\ MaxDepth(heap, 1, 0) = 3
  /\ Len(bestOut.read) = nActions

\* the visits of the internal node p that went to none of its children
OwnVisits(h, p) == h[p].nVisits_i - ChildVisits(h, p)

\* C27: after every completed iterate() call a leaf has 0 or 1 visits, an
\* internal node at least 1, and a non-root internal node has 0 or 1 visits
\* more than its children together.  A new node has 1 visit exactly when it
\* ends the path of the call that created it, a leaf keeps its count until
\* it is expanded, and the surplus of an internal node is the count it had as
\* a leaf when it was expanded and never changes afterwards: it is 1 exactly
\* when the node had ended a path before it was expanded.
C27_VisitShape ==
  /\ [](\A p \in Nodes(heap) :
          /\ IsLeaf(heap, p) => heap[p].nVisits_i \in {0, 1}
          /\ ~IsLeaf(heap, p) => heap[p].nVisits_i >= 1
          /\ (~IsLeaf(heap, p) /\ p # 1) => OwnVisits(heap, p) \in {0, 1})
  /\ [][IterateStep =>
          LET L == Len(visitedLog')
              expanded == visitedLog'[L - 1]
          IN /\ \A c \in Nodes(heap') \ Nodes(heap) :
                  heap'[c].nVisits_i = IF c = visitedLog'[L] THEN 1 ELSE 0
             /\ \A p \in Nodes(heap) :
                  IsLeaf(heap', p) => heap'[p].nVisits_i = heap[p].nVisits_i
             /\ expanded # 1 =>
                  OwnVisits(heap', expanded) = heap[expanded].nVisits_i
             /\ \A p \in Nodes(heap) \ {1} :
                  ~IsLeaf(heap, p) => OwnVisits(heap', p) = OwnVisits(heap, p)]_vars

C27_Witness ==
  /\ lastOp = "iterate"
  /\ iters = 3
  /\ \E p \in Nodes(heap) \ {1} : ~IsLeaf(heap, p) /\ OwnVisits(heap, p) = 1
  /\ \E p \in Nodes(heap) \ {1} : ~IsLeaf(heap, p) /\ OwnVisits(heap, p) = 0
  /\ \E p \in Nodes(heap) : IsLeaf(heap, p) /\ heap[p].nVisits_i = 1
  /\ \E p \in Nodes(heap) : IsLeaf(heap, p) /\ heap[p].nVisits_i = 0

\* node p of heap h is internal, was visited and has a child never visited
HasUnvisitedChild(h, p) ==
  /\ ~IsLeaf(h, p)
  /\ h[p].nVisits_i >= 1
  /\ \E c \in Slots(h, p) : h[c].nVisits_i = 0

\* C28: with rewards in [0,1] and gamma in (0,1], selectAction() on a visited
\* node that has a child with no visits returns such a child, on every node
\* of every state and at every step of every descent; so no child of a node
\* has two visits while a sibling has none, and after N iterate() calls on a
\* fresh root every child of the root has exactly one visit.
C28_UnvisitedFirst ==
  /\ [](\A f \in {Frame(heap, crand, bandit, handed)} :
          \A p \in Nodes(heap) :
            HasUnvisitedChild(heap, p) =>
              heap[heap[p].vpChildren_i[SelectAction(f, p).ret + 1]].nVisits_i = 0)
  /\ [](\A p \in Nodes(heap) :
          (~IsLeaf(heap, p) /\ \E c \in Slots(heap, p) : heap[c].nVisits_i = 0) =>
            \A c \in Slots(heap, p) : heap[c].nVisits_i <= 1)
  /\ [](iters = nActions =>
          \A c \in Slots(heap, 1) : heap[c].nVisits_i = 1)
  /\ [][IterateStep =>
          \A i \in 1..(Len(visitedLog') - 2) :
            HasUnvisitedChild(heap, visitedLog'[i]) =>
              heap[visitedLog'[i + 1]].nVisits_i = 0]_vars

C28_Witness ==
  /\ lastOp = "iterate"
  /\ nActions = MaxActions
  /\ iters = nActions
  /\ \A c \in Slots(heap, 1) : heap[c].nVisits_i = 1
  /\ mdpKind = "Const" /\ bandit = 0

\* C29: when an exception of the reward source leaves iterate(), thrown in
\* the descent, after the expansion or in the rollout, the call has changed
\* no node's visit count or total value, the nodes it created have neither,
\* and every node has its slots all null or all populated.
C29_ThrowKeepsStatistics ==
  [][(IterateStep /\ fault' = "exception") =>
       /\ \A p \in Nodes(heap) :
            /\ p \in Nodes(heap')
            /\ heap'[p].nVisits_i = heap[p].nVisits_i
            /\ heap'[p].totValue_i = heap[p].totValue_i
            /\ handed'[p] = handed[p]
       /\ \A p \in Nodes(heap') \ Nodes(heap) :
            heap'[p].nVisits_i = 0 /\ heap'[p].totValue_i = 0
       /\ \A p \in Nodes(heap') : SlotInvariant(heap', p)
       /\ backupLog'.updated = <<>>]_vars

C29_Witness ==
  /\ lastOp = "iterate"
  /\ fault = "exception"
  /\ nActions = MaxActions
  /\ iters = 1
  /\ ~IsLeaf(heap, 1)
  /\ heap[1].nVisits_i = 0
  /\ Len(heap) = 1 + nActions
  /\ caught.call = 1
  /\ mdpLog[1].from = "iterate"

RECURSIVE ShapeOf(_, _)
\* the tree with root p as a value: leaf status, visit count and total value
\* of every node, position by position
ShapeOf(h, p) ==
  [isLeaf |-> h[p].isLeaf_i, nVisits |-> h[p].nVisits_i,
   totValue |-> h[p].totValue_i,
   children |-> IF h[p].isLeaf_i THEN <<>>
                ELSE [k \in 1..nActions |->
                        IF h[p].vpChildren_i[k] \in Nodes(h)
                        THEN ShapeOf(h, h[p].vpChildren_i[k])
                        ELSE [missing |-> h[p].vpChildren_i[k]]]]

\* C30: a = a, for a leaf or an internal a, completes and leaves a with the
\* structure, visit counts and total values it had, and releases no node.
C30_SelfAssignKeeps ==
  [][\A a \in {1, treeCopy} :
       (lastOp' = AssignName(a, a) /\ lastOp # lastOp') =>
         /\ fault' = "none"
         /\ ShapeOf(heap', a) = ShapeOf(heap, a)
         /\ released' = released]_vars

====
